---- MODULE Spec2Model ----
(***************************************************************************)
(* The conversation controller (the useChat hook), the provider factory    *)
(* it resolves its provider from, and the provider stream events that      *)
(* drive it (Spec), and the line parser of the OpenAIProvider's streamed   *)
(* response body (SpecOpenAI).                                             *)
(*                                                                         *)
(* Strings whose contents matter (message text, fragments) are sequences   *)
(* of one-character strings, so that trimming and concatenation are        *)
(* computed.  An optional value is a sequence of length 0 (undefined/null) *)
(* or 1 (the value).  A handler runs atomically up to its first await,     *)
(* with React's queued state updaters applied in order.                    *)
(***************************************************************************)
EXTENDS Integers, Sequences, FiniteSets, TLC

\* ------------------------------------------------------------------ bounds
\* the number of sendMessage / retryLastMessage calls that start a turn
MaxTurns == 3

\* the lines of a response body
MaxLines == 3

\* ------------------------------------------------------------- input sets
None == <<>>
Some(x) == <<x>>

Sol == <<"S", "o", "l">>
ve == <<"v", "e">>
\* The reply a provider streams, as the non-empty fragments it is yielded in
\* (both providers skip empty chunks).  A stream may end, or fail, after any
\* prefix of it.
Reply == <<Sol, ve>>
ReplyFragment(k) == Reply[k]

Image1 == [type |-> "image/png", base64 |-> "AAAA"]

\* the (content, images) arguments of sendMessage: nothing, white space with
\* an empty attachment list, text to be trimmed, an image without text
SendInputs ==
  { <<<<>>, None>>,
    <<<<" ">>, Some(<<>>)>>,
    <<<<" ", "h", "i", " ">>, None>>,
    <<<<>>, Some(<<Image1>>)>> }

\* failures the awaited SDK call / fetch / reader can raise inside a provider
Causes == { Some("network down"), None }

\* import.meta.env: "" stands for an unset (or empty) variable, which the
\* code only ever tests for truthiness
Environments ==
  { [VITE_LLM_PROVIDER |-> "", VITE_GENAI_KEY |-> "gk", VITE_OPENAI_API_KEY |-> ""],
    [VITE_LLM_PROVIDER |-> "openai", VITE_GENAI_KEY |-> "gk", VITE_OPENAI_API_KEY |-> ""],
    [VITE_LLM_PROVIDER |-> "anthropic", VITE_GENAI_KEY |-> "gk", VITE_OPENAI_API_KEY |-> "ok"] }

\* ---------------------------------------------------------- pure helpers
WhiteSpace == {" ", "\n", "\t"}

RECURSIVE TrimStart(_)
TrimStart(s) ==
  IF s = <<>> THEN <<>>
  ELSE IF Head(s) \in WhiteSpace THEN TrimStart(Tail(s)) ELSE s

RECURSIVE TrimEnd(_)
TrimEnd(s) ==
  IF s = <<>> THEN <<>>
  ELSE IF s[Len(s)] \in WhiteSpace THEN TrimEnd(SubSeq(s, 1, Len(s) - 1)) ELSE s

\* String.prototype.trim
Trim(s) == TrimEnd(TrimStart(s))

\* images?.length is truthy
HasLength(images) == images # None /\ Len(images[1]) > 0

RECURSIVE Concat(_)
Concat(fs) == IF fs = <<>> THEN <<>> ELSE Head(fs) \o Concat(Tail(fs))

NoResponseGenerated ==
  <<"N", "o", " ", "r", "e", "s", "p", "o", "n", "s", "e", " ",
    "g", "e", "n", "e", "r", "a", "t", "e", "d", ".">>

\* ------------------------------------------------- registry and factory
BuiltInProviders == {"google-genai", "openai"}

Ok(v) == [ok |-> TRUE, value |-> v, message |-> <<>>]
Throw(m) == [ok |-> FALSE, value |-> "", message |-> m]

\* the singleton llmRegistry
VARIABLES
  factories,           \* private factories = new Map(): the entries, as
                       \* [type, factory] records in insertion order
  lastCall             \* the last call made on the registry or the service
                       \* factory, with what it returned or threw

registry == <<factories, lastCall>>

\* the values of LLMProviderType
ProviderTypes == {"google-genai", "openai", "anthropic", "custom"}

\* the factory functions: the two arrow functions of registerBuiltInProviders
\* and one that a client registers
Factories == {"GoogleGenAIProvider", "OpenAIProvider", "ClientProvider"}

\* the factories Map as the constructor leaves it
BuiltInFactories ==
  << [type |-> "google-genai", factory |-> "GoogleGenAIProvider"],
     [type |-> "openai", factory |-> "OpenAIProvider"] >>

\* the LLMConfig values: an empty and a non-empty apiKey
Configs == { [apiKey |-> ""], [apiKey |-> "k"] }

\* Map.prototype.get: None for undefined
MapGet(map, type) ==
  LET at == {i \in 1..Len(map) : map[i].type = type}
  IN  IF at = {} THEN None ELSE Some(map[CHOOSE i \in at : TRUE].factory)

\* a variant of set that adds an entry even if the key is present
MapSetAppending(map, type, factory) ==
  Append(map, [type |-> type, factory |-> factory])

\* Map.prototype.set: an existing key keeps its place
MapSet(map, type, factory) ==
  IF MapGet(map, type) = None
  THEN Append(map, [type |-> type, factory |-> factory])
  ELSE [i \in 1..Len(map) |->
          IF map[i].type = type THEN [map[i] EXCEPT !.factory = factory]
          ELSE map[i]]

\* Array.from(map.keys())
MapKeys(map) == [i \in 1..Len(map) |-> map[i].type]

\* a variant of the constructor that accepts an empty key
GoogleGenAIProviderNewUnchecked(config) ==
  Ok([name |-> "google-genai", client |-> Some([apiKey |-> config.apiKey])])

\* new GoogleGenAIProvider(config)
GoogleGenAIProviderNew(config) ==
  IF config.apiKey = "" THEN Throw(<<"Google GenAI API key is required">>)
  ELSE Ok([name |-> "google-genai", client |-> Some([apiKey |-> config.apiKey])])

\* a variant of the constructor that accepts an empty key
OpenAIProviderNewUnchecked(config) ==
  Ok([name |-> "openai", apiKey |-> config.apiKey])

\* new OpenAIProvider(config)
OpenAIProviderNew(config) ==
  IF config.apiKey = "" THEN Throw(<<"OpenAI API key is required">>)
  ELSE Ok([name |-> "openai", apiKey |-> config.apiKey])

\* isConfigured(): !!this.client, !!this.apiKey
IsConfigured(p) ==
  IF p.name = "google-genai" THEN p.client # None ELSE p.apiKey # ""

\* factory(config)
Invoke(factory, config) ==
  IF factory = "GoogleGenAIProvider" THEN GoogleGenAIProviderNew(config)
  ELSE IF factory = "OpenAIProvider" THEN OpenAIProviderNew(config)
  ELSE Ok([name |-> "client"])

\* the calls of factory functions that llmRegistry.create(type, config) makes
Invocations(type, config) ==
  LET factory == MapGet(factories, type)
  IN  IF factory = None THEN <<>>
      ELSE <<[factory |-> factory[1], config |-> config]>>

\* a variant of create that falls back to the first entry of the Map
RegistryCreateOrFirst(type, config) ==
  IF MapGet(factories, type) = None THEN Invoke(factories[1].factory, config)
  ELSE Invoke(MapGet(factories, type)[1], config)

\* llmRegistry.create
RegistryCreate(type, config) ==
  LET calls == Invocations(type, config)
  IN  IF calls = <<>>
      THEN Throw(<<"LLM provider type '", type, "' is not registered">>)
      ELSE Invoke(calls[1].factory, calls[1].config)

\* a variant of the switch whose default case returns an empty configuration
GetConfigOrEmpty(type, e) ==
  IF type = "google-genai" THEN Ok([apiKey |-> e.VITE_GENAI_KEY])
  ELSE IF type = "openai" THEN Ok([apiKey |-> e.VITE_OPENAI_API_KEY])
  ELSE Ok([apiKey |-> ""])

\* LLMServiceFactory.getConfigForProvider
GetConfigForProvider(type, e) ==
  IF type = "google-genai" THEN Ok([apiKey |-> e.VITE_GENAI_KEY])
  ELSE IF type = "openai" THEN Ok([apiKey |-> e.VITE_OPENAI_API_KEY])
  ELSE Throw(<<"No environment configuration available for provider: ", type>>)

\* LLMServiceFactory.createFromEnvironment
CreateFromEnvironment(e) ==
  LET providerType ==
        IF e.VITE_LLM_PROVIDER = "" THEN "google-genai" ELSE e.VITE_LLM_PROVIDER
      config == GetConfigForProvider(providerType, e)
  IN  IF config.ok THEN RegistryCreate(providerType, config.value)
      ELSE Throw(config.message)

\* a variant of the rethrown Error that does not name the provider
ProviderErrorUnnamed(name, cause) ==
  [isError |-> TRUE, name |-> "Error",
   message |-> IF cause # None THEN <<"Error: ", cause[1]>>
               ELSE <<"Failed to generate response">>]

\* the Error a provider's generateStreamingResponse rethrows from its catch
ProviderError(name, cause) ==
  [isError |-> TRUE, name |-> "Error",
   message |-> IF cause # None THEN <<name, " Error: ", cause[1]>>
               ELSE <<"Failed to generate response from ", name>>]

\* ------------------------------------ the request a provider builds
\* the characters of \w in a regular expression without the u flag
WordCharacters ==
  { "a", "b", "c", "d", "e", "f", "g", "h", "i", "j", "k", "l", "m",
    "n", "o", "p", "q", "r", "s", "t", "u", "v", "w", "x", "y", "z",
    "A", "B", "C", "D", "E", "F", "G", "H", "I", "J", "K", "L", "M",
    "N", "O", "P", "Q", "R", "S", "T", "U", "V", "W", "X", "Y", "Z",
    "0", "1", "2", "3", "4", "5", "6", "7", "8", "9",
    "_" }

UpperCase == <<"A", "B", "C", "D", "E", "F", "G", "H", "I", "J", "K", "L", "M", "N", "O", "P", "Q", "R", "S", "T", "U", "V", "W", "X", "Y", "Z">>
LowerCase == <<"a", "b", "c", "d", "e", "f", "g", "h", "i", "j", "k", "l", "m", "n", "o", "p", "q", "r", "s", "t", "u", "v", "w", "x", "y", "z">>

\* String.prototype.toLowerCase on the characters of the texts
ToLowerCase(text) ==
  [i \in 1..Len(text) |->
     IF \E k \in 1..26 : UpperCase[k] = text[i]
     THEN LowerCase[CHOOSE k \in 1..26 : UpperCase[k] = text[i]]
     ELSE text[i]]

\* the alternatives of the mathKeywords regular expression
XCaret == <<"x", "^">>
CaretTwo == <<"^", "2">>
MathKeywords ==
  { <<"e", "q", "u", "a", "t", "i", "o", "n">>,
    <<"f", "o", "r", "m", "u", "l", "a">>,
    <<"m", "a", "t", "h">>,
    <<"s", "o", "l", "v", "e">>,
    <<"c", "a", "l", "c", "u", "l", "a", "t", "e">>,
    <<"q", "u", "a", "d", "r", "a", "t", "i", "c">>,
    <<"a", "l", "g", "e", "b", "r", "a">>,
    <<"g", "e", "o", "m", "e", "t", "r", "y">>,
    <<"c", "a", "l", "c", "u", "l", "u", "s">>,
    <<"f", "u", "n", "c", "t", "i", "o", "n">>,
    <<"d", "e", "r", "i", "v", "a", "t", "i", "v", "e">>,
    <<"i", "n", "t", "e", "g", "r", "a", "l">>,
    <<"m", "a", "t", "r", "i", "x">>,
    <<"v", "e", "c", "t", "o", "r">>,
    <<"p", "o", "l", "y", "n", "o", "m", "i", "a", "l">>,
    <<"c", "o", "e", "f", "f", "i", "c", "i", "e", "n", "t">>,
    <<"v", "a", "r", "i", "a", "b", "l", "e">>,
    <<"s", "o", "l", "u", "t", "i", "o", "n">>,
    <<"t", "h", "e", "o", "r", "e", "m">>,
    <<"p", "r", "o", "o", "f">>,
    XCaret,
    CaretTwo,
    <<"s", "q", "r", "t">>,
    <<"f", "r", "a", "c", "t", "i", "o", "n">>,
    <<"p", "e", "r", "c", "e", "n", "t">> }

\* text[i] exists and is a \w character
IsWordCharacter(text, i) == i \in 1..Len(text) /\ text[i] \in WordCharacters

\* \b matches between text[i] and text[i + 1] (i = 0 and i = Len(text) are
\* the two ends of the text)
WordBoundary(text, i) ==
  IsWordCharacter(text, i) # IsWordCharacter(text, i + 1)

\* the keyword occurs in text at position i
OccursAt(text, keyword, i) ==
  /\ i + Len(keyword) - 1 <= Len(text)
  /\ text[i] = keyword[1]
  /\ SubSeq(text, i, i + Len(keyword) - 1) = keyword

\* a variant of the scan without the two \b
DetectMathContentAnywhere(text) ==
  \E t \in {text} :
    \E keyword \in MathKeywords, i \in 1..Len(t) : OccursAt(t, keyword, i)

\* detectMathContent: /\b(equation|...|x\^|\^2|...)\b/.test(text)
\* (t names the value of text, so that it is computed once)
DetectMathContent(text) ==
  \E t \in {text} :
    \E keyword \in MathKeywords, i \in 1..Len(t) :
      /\ OccursAt(t, keyword, i)
      /\ WordBoundary(t, i - 1)
      /\ WordBoundary(t, i + Len(keyword) - 1)

\* Array.prototype.join(" ")
RECURSIVE JoinSpace(_)
JoinSpace(texts) ==
  IF texts = <<>> THEN <<>>
  ELSE IF Len(texts) = 1 THEN texts[1]
  ELSE texts[1] \o <<" ">> \o JoinSpace(Tail(texts))

\* messages.map((m) => m.content).join(" ").toLowerCase()
ConversationText(ms) ==
  ToLowerCase(JoinSpace([i \in 1..Len(ms) |-> ms[i].content]))

\* msg.images && msg.images.length > 0
HasImages(msg) == msg.images # None /\ msg.images[1] # <<>>

\* a variant of the conversion that pushes the images before the text
GoogleContentImagesFirst(msg) ==
  [role |-> IF msg.role = "user" THEN "user" ELSE "model",
   parts |->
     (IF HasImages(msg)
      THEN [i \in 1..Len(msg.images[1]) |->
              [inlineData |-> [mimeType |-> msg.images[1][i].type,
                               data |-> msg.images[1][i].data]]]
      ELSE <<>>) \o
     (IF msg.content # <<>> THEN <<[text |-> msg.content]>> ELSE <<>>)]

\* GoogleGenAIProvider: one element of contents
GoogleContent(msg) ==
  [role |-> IF msg.role = "user" THEN "user" ELSE "model",
   parts |->
     (IF msg.content # <<>> THEN <<[text |-> msg.content]>> ELSE <<>>) \o
     (IF HasImages(msg)
      THEN [i \in 1..Len(msg.images[1]) |->
              [inlineData |-> [mimeType |-> msg.images[1][i].type,
                               data |-> msg.images[1][i].data]]]
      ELSE <<>>)]

\* createMathInstruction
GoogleMathInstruction ==
  [role |-> "model",
   parts |-> <<[text |-> <<"IMPORTANT: When providing mathematical expressions, always use LaTeX syntax with dollar signs for proper rendering">>]>>]

\* a variant of the Google request whose scan covers the user turns only
GoogleContentsScanningUser(ms) ==
  LET User(m) == m.role = "user"
  IN  (IF DetectMathContent(ConversationText(SelectSeq(ms, User)))
       THEN <<GoogleMathInstruction>> ELSE <<>>)
      \o [i \in 1..Len(ms) |-> GoogleContent(ms[i])]

\* GoogleGenAIProvider: contents, with the instruction unshifted
GoogleContents(ms) ==
  (IF DetectMathContent(ConversationText(ms)) THEN <<GoogleMathInstruction>>
   ELSE <<>>) \o [i \in 1..Len(ms) |-> GoogleContent(ms[i])]

\* OpenAIProvider: one element of openAIMessages
OpenAIMessage(msg) ==
  IF ~HasImages(msg)
  THEN [role |-> msg.role, content |-> [string |-> msg.content]]
  ELSE [role |-> msg.role,
        content |->
          [array |->
             (IF msg.content # <<>>
              THEN <<[type |-> "text", text |-> msg.content]>> ELSE <<>>) \o
             [i \in 1..Len(msg.images[1]) |->
                [type |-> "image_url",
                 image_url |->
                   [url |-> <<"data:", msg.images[1][i].type, ";base64,",
                              msg.images[1][i].data>>]]]]]

\* the system message OpenAIProvider unshifts
OpenAIMathInstruction ==
  [role |-> "system",
   content |-> [string |-> <<"When providing mathematical expressions, always use LaTeX syntax with dollar signs: $expression$ for inline math and $$expression$$ for block math.">>]]

\* OpenAIProvider: openAIMessages, with the instruction unshifted
OpenAIMessages(ms) ==
  (IF DetectMathContent(ConversationText(ms)) THEN <<OpenAIMathInstruction>>
   ELSE <<>>) \o [i \in 1..Len(ms) |-> OpenAIMessage(ms[i])]

\* what generateStreamingResponse(messages) of the provider of that name
\* puts in its request
ProviderRequest(name, ms) ==
  IF name = "openai" THEN OpenAIMessages(ms) ELSE GoogleContents(ms)

\* ------------------------------------------------------------ the state
VARIABLES
  messages,            \* useState<Message[]>
  isLoading,           \* useState(false)
  error,               \* useState<string | null>: None or Some(message)
  abortControllerRef,  \* useRef<AbortController | null>: None or
                       \* Some([id, aborted]), the controller and its signal
  llmProvider,         \* useRef<LLMProvider | null>: None or Some(provider)
  turns,               \* the sendMessage / retryLastMessage invocations
  nextId,              \* generateId: the ids handed out so far
  env,                 \* import.meta.env
  lastEvent,           \* the operation or stream event of the last step
  responseBody,        \* OpenAIProvider: the body of the fetch response
  unread,              \* the part of the body reader.read() has not returned
  buffer,              \* let buffer: the text read and not yet split off
  yielded,             \* the fragments the generator has yielded so far
  readerLocked,        \* the reader is held: the generator has not ended
  provider,            \* this.name of the provider whose generator runs
  response,            \* const response: None while the request is pending
  thrown,              \* None, or Some(the Error the generator threw)
  llmHistory,          \* the messages argument of generateStreamingResponse
  contents             \* None, or Some(the contents / openAIMessages built)

\* the state of one generateStreamingResponse call of a provider
openAIStream == <<responseBody, unread, buffer, yielded, readerLocked,
                  provider, response, thrown>>

\* the state of the hook
chat == <<messages, isLoading, error, abortControllerRef,
          llmProvider, turns, nextId, env, lastEvent>>

\* the request a provider builds from its argument
request == <<llmHistory, contents>>

vars == <<chat, openAIStream, registry, request>>

\* no request has been made
NoBody == [lines |-> <<>>, terminated |-> TRUE]

\* new AbortController(): only the ref ever holds a controller
NewAbortController(id) == Some([id |-> id, aborted |-> FALSE])

\* op: the operation or stream event; turn: the turn it started or belongs
\* to (0: none); started: whether the call went past its early return
Event(op, turn, started) == [op |-> op, turn |-> turn, started |-> started]

Init ==
  /\ messages = <<>>
  /\ isLoading = FALSE
  /\ error = None
  /\ abortControllerRef = None
  /\ llmProvider = None
  /\ turns = <<>>
  /\ nextId = 1
  /\ env \in Environments
  /\ lastEvent = Event("init", 0, FALSE)
  /\ responseBody = NoBody
  /\ unread = <<>>
  /\ buffer = <<>>
  /\ yielded = <<>>
  /\ readerLocked = FALSE
  /\ provider = None
  /\ response = None
  /\ thrown = None
  /\ factories = BuiltInFactories
  /\ lastCall = [op |-> "init"]
  /\ llmHistory = <<>>
  /\ contents = None

\* ------------------------------------------- the hook's building blocks
\* convertToLLMMessage
convertToLLMMessage(m) ==
  [role |-> m.role, content |-> m.content,
   images |-> IF m.images = None THEN None
              ELSE Some([i \in 1..Len(m.images[1]) |->
                          [type |-> m.images[1][i].type,
                           data |-> m.images[1][i].base64]])]

MapLLM(ms) == [i \in 1..Len(ms) |-> convertToLLMMessage(ms[i])]

\* the object a provider constructor returns: instance tells the objects
\* constructed for this controller apart, in the order of their construction
NewProvider(name) ==
  [name |-> name,
   instance |-> IF llmProvider = None THEN 1 ELSE llmProvider[1].instance + 1]

\* getLLMProvider: the outcome of LLMServiceFactory.createFromEnvironment()
GetLLMProvider ==
  LET created == CreateFromEnvironment(env)
  IN  IF created.ok THEN Ok(NewProvider(created.value.name)) ELSE created

\* a variant of getLLM that constructs a provider on every call
GetLLMUnmemoized == GetLLMProvider

\* getLLM: the memoized provider, or the outcome of constructing it
GetLLM == IF llmProvider # None THEN Ok(llmProvider[1]) ELSE GetLLMProvider

\* a variant of the early return that tests the text without trimming it
SendReturnsEarlyUntrimmed(content, images) ==
  (content = <<>> /\ ~HasLength(images)) \/ isLoading

\* the early return of sendMessage
SendReturnsEarly(content, images) ==
  (Trim(content) = <<>> /\ ~HasLength(images)) \/ isLoading

UserMessage(id, content, images) ==
  [id |-> id, content |-> Trim(content), role |-> "user",
   isLoading |-> FALSE, images |-> images]

LoadingMessage(id) ==
  [id |-> id, content |-> <<>>, role |-> "assistant",
   isLoading |-> TRUE, images |-> None]

\* a variant that appends the placeholder before the user message
AppendTurnSwapped(prev, userMessage, loadingMessage) ==
  prev \o <<loadingMessage, userMessage>>

\* setMessages((prev) => [...prev, userMessage, loadingMessage])
AppendTurn(prev, userMessage, loadingMessage) ==
  prev \o <<userMessage, loadingMessage>>

\* abortControllerRef.current?.signal.aborted
SignalAborted == abortControllerRef # None /\ abortControllerRef[1].aborted

\* a variant of the abort that lets go of a controller already aborted
AbortCurrentOrRelease ==
  IF abortControllerRef # None /\ abortControllerRef[1].aborted THEN None
  ELSE IF abortControllerRef # None
  THEN Some([abortControllerRef[1] EXCEPT !.aborted = TRUE])
  ELSE abortControllerRef

\* if (abortControllerRef.current) abortControllerRef.current.abort()
AbortCurrent ==
  IF abortControllerRef # None
  THEN Some([abortControllerRef[1] EXCEPT !.aborted = TRUE])
  ELSE abortControllerRef

\* a variant of the per-chunk update that writes to the last message
MergeChunkIntoLast(prev, id, accumulatedContent) ==
  [i \in 1..Len(prev) |->
     IF i = Len(prev)
     THEN [prev[i] EXCEPT !.content = accumulatedContent, !.isLoading = FALSE]
     ELSE prev[i]]

\* the per-chunk update of the assistant message
MergeChunk(prev, id, accumulatedContent) ==
  [i \in 1..Len(prev) |->
     IF prev[i].id = id
     THEN [prev[i] EXCEPT !.content = accumulatedContent, !.isLoading = FALSE]
     ELSE prev[i]]

\* a variant of the final update that puts the message back when the list
\* no longer holds it
FinalUpdateOrAppend(prev, id, accumulatedContent) ==
  IF \E i \in 1..Len(prev) : prev[i].id = id
  THEN [i \in 1..Len(prev) |->
          IF prev[i].id = id
          THEN [prev[i] EXCEPT
                  !.content = IF accumulatedContent # <<>>
                              THEN accumulatedContent
                              ELSE NoResponseGenerated,
                  !.isLoading = FALSE]
          ELSE prev[i]]
  ELSE Append(prev, [id |-> id, content |-> accumulatedContent,
                     role |-> "assistant", isLoading |-> FALSE,
                     images |-> None])

\* the final update after the loop
FinalUpdate(prev, id, accumulatedContent) ==
  [i \in 1..Len(prev) |->
     IF prev[i].id = id
     THEN [prev[i] EXCEPT
             !.content = IF accumulatedContent # <<>> THEN accumulatedContent
                         ELSE NoResponseGenerated,
             !.isLoading = FALSE]
     ELSE prev[i]]

\* a variant that removes the message only while it is still the placeholder
RemoveLoadingIfPlaceholder(prev, id) ==
  LET Keep(m) == m.id # id \/ ~m.isLoading IN SelectSeq(prev, Keep)

\* a variant of the filter that also drops the user message in front of the
\* assistant message
RemoveLoadingWithPrompt(prev, id) ==
  LET at == {i \in 1..Len(prev) : prev[i].id = id}
      Keep(m) == /\ m.id # id
                 /\ \A i \in at : i > 1 => m.id # prev[i - 1].id
  IN  SelectSeq(prev, Keep)

\* setMessages((prev) => prev.filter((msg) => msg.id !== assistantMessageId))
RemoveLoading(prev, id) ==
  LET Keep(m) == m.id # id IN SelectSeq(prev, Keep)

\* err instanceof Error ? err.message : "Something went wrong"
ErrorMessageOf(err) ==
  IF err.isError THEN err.message ELSE <<"Something went wrong">>

\* a variant of the catch that takes every Error for an aborted request
IsAnyError(err) == err.isError

\* the catch branch taken for an aborted request
IsAbortError(err) == err.isError /\ err.name = "AbortError"

\* The locals of one invocation whose for-await loop is pending, with what
\* its stream has yielded so far (received) and whether clearChat ran during
\* it (cancelled).
Turn(kind, userId, assistantId, llm, llmMessages) ==
  [kind |-> kind, userMessageId |-> userId, assistantMessageId |-> assistantId,
   llm |-> Some(llm), llmMessages |-> llmMessages, accumulatedContent |-> <<>>,
   received |-> <<>>, pc |-> "streaming", cancelled |-> FALSE]

\* an invocation that has returned keeps no locals
Returned ==
  [kind |-> "", userMessageId |-> 0, assistantMessageId |-> 0,
   llm |-> None, llmMessages |-> <<>>, accumulatedContent |-> <<>>,
   received |-> <<>>, pc |-> "done", cancelled |-> FALSE]

Running(t) == t \in 1..Len(turns) /\ turns[t].pc = "streaming"


\* ----------------------------------------------------------- sendMessage
sendMessage(content, images) ==
  IF SendReturnsEarly(content, images)
  THEN /\ lastEvent' = Event("sendMessage", 0, FALSE)
       /\ UNCHANGED <<messages, isLoading, error, abortControllerRef,
                      llmProvider, turns, nextId, env,
                      openAIStream, registry, request>>
  ELSE LET t == Len(turns) + 1
           userMessage == UserMessage(nextId, content, images)
           assistantMessageId == nextId + 1
           appended == AppendTurn(messages, userMessage,
                                  LoadingMessage(assistantMessageId))
           llm == GetLLM
           llmMessages == MapLLM(messages \o <<userMessage>>)
       IN  /\ Len(turns) < MaxTurns
           /\ nextId' = nextId + 2
           /\ lastEvent' = Event("sendMessage", t, TRUE)
           /\ UNCHANGED <<env, openAIStream, registry, request>>
           /\ IF llm.ok
              THEN /\ messages' = appended
                   /\ isLoading' = TRUE
                   /\ error' = None
                   /\ abortControllerRef' = NewAbortController(t)
                   /\ llmProvider' = Some(llm.value)
                   /\ turns' = Append(turns,
                        Turn("send", userMessage.id, assistantMessageId,
                             llm.value, llmMessages))
              ELSE \* getLLM threw inside the try: catch and finally run
                   \* before the handler first yields
                   /\ messages' = RemoveLoading(appended, assistantMessageId)
                   /\ isLoading' = FALSE
                   /\ error' = Some(llm.message)
                   /\ abortControllerRef' = None
                   /\ llmProvider' = llmProvider
                   /\ turns' = Append(turns, Returned)

\* ------------------------------------------------------ retryLastMessage
\* [...messages].reverse().find((msg) => msg.role === "user")
RECURSIVE LastUserMessage(_)
LastUserMessage(ms) ==
  IF ms = <<>> THEN None
  ELSE IF ms[Len(ms)].role = "user" THEN Some(ms[Len(ms)])
  ELSE LastUserMessage(SubSeq(ms, 1, Len(ms) - 1))

\* a variant of the early return that tests the loading flag only
RetryReturnsEarlyWhenLoading == isLoading

\* the early return of retryLastMessage
RetryReturnsEarly == LastUserMessage(messages) = None \/ isLoading

\* a variant of the updater that drops the last message whatever its role
RemoveTrailingMessage(prev) ==
  IF Len(prev) >= 1 THEN SubSeq(prev, 1, Len(prev) - 1) ELSE prev

\* the updater that drops a trailing assistant message
RemoveTrailingAssistant(prev) ==
  LET lastAssistantIndex == Len(prev)
  IN  IF lastAssistantIndex >= 1 /\ prev[lastAssistantIndex].role = "assistant"
      THEN SubSeq(prev, 1, lastAssistantIndex - 1)
      ELSE prev

\* setMessages((prev) => [...prev, loadingMessage])
AppendLoading(prev, loadingMessage) == Append(prev, loadingMessage)

\* a variant of the history without the push of lastUserMessage
RetryHistoryWithoutPush(ms, lastUserMessage) ==
  LET Keep(m) == m.role = "user" \/ m.id # ms[Len(ms)].id
  IN  SelectSeq(ms, Keep)

\* messages.filter(...) followed by push(lastUserMessage)
RetryHistory(ms, lastUserMessage) ==
  LET Keep(m) == m.role = "user" \/ m.id # ms[Len(ms)].id
  IN  Append(SelectSeq(ms, Keep), lastUserMessage)

retryLastMessage ==
  IF RetryReturnsEarly
  THEN /\ lastEvent' = Event("retryLastMessage", 0, FALSE)
       /\ UNCHANGED <<messages, isLoading, error, abortControllerRef,
                      llmProvider, turns, nextId, env,
                      openAIStream, registry, request>>
  ELSE LET t == Len(turns) + 1
           lastUserMessage == LastUserMessage(messages)
           assistantMessageId == nextId
           appended == AppendLoading(RemoveTrailingAssistant(messages),
                                     LoadingMessage(assistantMessageId))
           llm == GetLLM
           \* conversationHistory.map(convertToLLMMessage) reads .role of
           \* every element, the pushed lastUserMessage included
           llmMessages ==
             IF lastUserMessage = None
             THEN Throw(<<"Cannot read properties of undefined (reading 'role')">>)
             ELSE Ok(MapLLM(RetryHistory(messages, lastUserMessage[1])))
       IN  /\ Len(turns) < MaxTurns
           /\ nextId' = nextId + 1
           /\ lastEvent' = Event("retryLastMessage", t, TRUE)
           /\ UNCHANGED <<env, openAIStream, registry, request>>
           /\ IF llm.ok /\ llmMessages.ok
              THEN /\ messages' = appended
                   /\ isLoading' = TRUE
                   /\ error' = None
                   /\ abortControllerRef' = NewAbortController(t)
                   /\ llmProvider' = Some(llm.value)
                   /\ turns' = Append(turns,
                        Turn("retry", lastUserMessage[1].id, assistantMessageId,
                             llm.value, llmMessages.value))
              ELSE \* getLLM or the conversion threw inside the try
                   /\ messages' = RemoveLoading(appended, assistantMessageId)
                   /\ isLoading' = FALSE
                   /\ error' = Some(IF llm.ok THEN llmMessages.message
                                    ELSE llm.message)
                   /\ abortControllerRef' = None
                   /\ llmProvider' = IF llm.ok THEN Some(llm.value)
                                     ELSE llmProvider
                   /\ turns' = Append(turns, Returned)

\* ------------------------------------------------------------- clearChat
clearChat ==
  /\ messages' = <<>>
  /\ error' = None
  /\ abortControllerRef' = AbortCurrent
  /\ isLoading' = FALSE
  /\ turns' = [t \in 1..Len(turns) |->
                 IF turns[t].pc = "streaming"
                 THEN [turns[t] EXCEPT !.cancelled = TRUE] ELSE turns[t]]
  /\ lastEvent' = Event("clearChat", 0, FALSE)
  /\ UNCHANGED <<llmProvider, nextId, env,
                 openAIStream, registry, request>>

\* ------------------------------------------ the stream events of a turn
\* the finally block: setIsLoading(false); abortControllerRef.current = null
\* a variant of the finally block without setIsLoading(false)
FinallyKeepsLoading == isLoading

FinallyIsLoading == FALSE
FinallyController == None

\* the provider yields its next chunk to the for-await loop of turn t
StreamChunk(t) ==
 LET chunk == ReplyFragment(Len(turns[t].received) + 1) IN
  /\ Running(t)
  /\ Len(turns[t].received) < Len(Reply)
  /\ lastEvent' = Event("chunk", t, FALSE)
  /\ UNCHANGED <<error, llmProvider, nextId, env,
                 openAIStream, registry, request>>
  /\ IF SignalAborted
     THEN \* break, then the final update and the finally block
          /\ messages' = FinalUpdate(messages, turns[t].assistantMessageId,
                                     turns[t].accumulatedContent)
          /\ isLoading' = FinallyIsLoading
          /\ abortControllerRef' = FinallyController
          /\ turns' = [turns EXCEPT ![t] = Returned]
     ELSE LET accumulatedContent == turns[t].accumulatedContent \o chunk
          IN  /\ messages' = MergeChunk(messages, turns[t].assistantMessageId,
                                        accumulatedContent)
              /\ turns' = [turns EXCEPT ![t].received = Append(@, chunk),
                                        ![t].accumulatedContent = accumulatedContent]
              /\ UNCHANGED <<isLoading, abortControllerRef>>

\* the provider's generator returns: the loop of turn t ends
StreamDone(t) ==
  /\ Running(t)
  /\ messages' = FinalUpdate(messages, turns[t].assistantMessageId,
                             turns[t].accumulatedContent)
  /\ isLoading' = FinallyIsLoading
  /\ abortControllerRef' = FinallyController
  /\ turns' = [turns EXCEPT ![t] = Returned]
  /\ lastEvent' = Event("done", t, FALSE)
  /\ UNCHANGED <<error, llmProvider, nextId, env,
                 openAIStream, registry, request>>

\* the provider's generator throws: the catch and finally of turn t run
StreamThrow(t, cause) ==
  LET err == ProviderError(turns[t].llm[1].name, cause)
  IN  /\ Running(t)
      /\ IF IsAbortError(err)
         THEN UNCHANGED <<error, messages>>
         ELSE /\ error' = Some(ErrorMessageOf(err))
              /\ messages' = RemoveLoading(messages, turns[t].assistantMessageId)
      /\ isLoading' = FinallyIsLoading
      /\ abortControllerRef' = FinallyController
      /\ turns' = [turns EXCEPT ![t] = Returned]
      /\ lastEvent' = Event("throw", t, FALSE)
      /\ UNCHANGED <<llmProvider, nextId, env,
                     openAIStream, registry, request>>

Next ==
  \/ \E in \in SendInputs : sendMessage(in[1], in[2])
  \/ retryLastMessage
  \/ clearChat
  \/ \E t \in 1..MaxTurns : StreamChunk(t)
  \/ \E t \in 1..MaxTurns : StreamDone(t)
  \/ \E t \in 1..MaxTurns, cause \in Causes : StreamThrow(t, cause)

Spec == Init /\ [][Next]_vars

\* ------------------------------ OpenAIProvider.generateStreamingResponse
\* Text is a sequence of pieces. The pieces are the units at which the
\* response body can be cut into read chunks: the line feed, the two halves
\* of the prefix "data: ", and the parts of a payload.
LF == "\n"
DataPrefix == <<"da", "ta: ">>
DoneSentinel == <<"[DONE]">>
JSONOpen == "{choices:[{delta:{content:"
JSONClose == "}]}"
RoleDelta == "{choices:[{delta:{role:assistant}}]}"

\* a line "data: " followed by a completion chunk whose delta has content c
ContentLine(c) == DataPrefix \o <<JSONOpen, c, JSONClose>>

\* the lines a response body is made of
LineKinds ==
  { ContentLine("Hel"),                    \* a content delta
    ContentLine("lo"),
    ContentLine(""),                       \* a delta with empty content
    DataPrefix \o <<RoleDelta>>,           \* a delta without content
    DataPrefix \o <<JSONOpen, "Hel">>,     \* a payload that is not valid JSON
    DataPrefix \o DoneSentinel,            \* data: [DONE]
    <<>> }                                 \* the empty line between events

\* the response bodies: up to MaxLines lines, each followed by a line feed,
\* the last one possibly not
Bodies ==
  { [lines |-> ls, terminated |-> nl] :
      ls \in UNION { [1..n -> LineKinds] : n \in 0..MaxLines },
      nl \in BOOLEAN }

\* the text of a body
RECURSIVE BodyText(_)
BodyText(body) ==
  IF body.lines = <<>> THEN <<>>
  ELSE IF Len(body.lines) = 1
  THEN Head(body.lines) \o (IF body.terminated THEN <<LF>> ELSE <<>>)
  ELSE Head(body.lines) \o <<LF>>
         \o BodyText([body EXCEPT !.lines = Tail(@)])

\* text.split("\n")
RECURSIVE Split(_)
Split(text) ==
  IF \A i \in 1..Len(text) : text[i] # LF THEN <<text>>
  ELSE LET i == CHOOSE k \in 1..Len(text) :
                  text[k] = LF /\ \A j \in 1..(k - 1) : text[j] # LF
       IN  <<SubSeq(text, 1, i - 1)>> \o Split(SubSeq(text, i + 1, Len(text)))

\* line.startsWith("data: ")
StartsWithData(line) ==
  Len(line) >= Len(DataPrefix) /\ SubSeq(line, 1, Len(DataPrefix)) = DataPrefix

\* line.slice(6)
Slice6(line) == SubSeq(line, Len(DataPrefix) + 1, Len(line))

\* JSON.parse(data) followed by parsed.choices?.[0]?.delta?.content:
\* the content, None for a delta without content, or the SyntaxError
ParseContent(data) ==
  IF Len(data) = 3 /\ data[1] = JSONOpen /\ data[3] = JSONClose
  THEN Ok(Some(data[2]))
  ELSE IF data = <<RoleDelta>> THEN Ok(None)
  ELSE Throw(<<"Unexpected token in JSON">>)

\* if (content): undefined and the empty string are not yielded
Truthy(content) == content # None /\ content[1] # ""

\* a variant of the loop over the lines that skips [DONE] and goes on
RECURSIVE ProcessLinesPastDone(_)
ProcessLinesPastDone(lines) ==
  IF lines = <<>> THEN [fragments |-> <<>>, returned |-> FALSE]
  ELSE LET line == Head(lines)
           data == Slice6(line)
           rest == ProcessLinesPastDone(Tail(lines))
       IN  IF ~StartsWithData(line) THEN rest
           ELSE IF data = DoneSentinel THEN rest
           ELSE IF ParseContent(data).ok /\ Truthy(ParseContent(data).value)
           THEN [rest EXCEPT
                   !.fragments = <<ParseContent(data).value[1]>> \o @]
           ELSE rest

\* a variant of the loop over the lines that ends the sequence at a payload
\* JSON.parse rejects
RECURSIVE ProcessLinesUntilInvalid(_)
ProcessLinesUntilInvalid(lines) ==
  IF lines = <<>> THEN [fragments |-> <<>>, returned |-> FALSE]
  ELSE LET line == Head(lines)
           data == Slice6(line)
           rest == ProcessLinesUntilInvalid(Tail(lines))
       IN  IF ~StartsWithData(line) THEN rest
           ELSE IF data = DoneSentinel \/ ~ParseContent(data).ok
           THEN [fragments |-> <<>>, returned |-> TRUE]
           ELSE IF Truthy(ParseContent(data).value)
           THEN [rest EXCEPT
                   !.fragments = <<ParseContent(data).value[1]>> \o @]
           ELSE rest

\* for (const line of lines): the fragments yielded, in order, and whether
\* the generator returned at [DONE]
RECURSIVE ProcessLines(_)
ProcessLines(lines) ==
  IF lines = <<>> THEN [fragments |-> <<>>, returned |-> FALSE]
  ELSE LET line == Head(lines)
           data == Slice6(line)
           rest == ProcessLines(Tail(lines))
       IN  IF ~StartsWithData(line) THEN rest
           ELSE IF data = DoneSentinel
           THEN [fragments |-> <<>>, returned |-> TRUE]
           ELSE IF ParseContent(data).ok /\ Truthy(ParseContent(data).value)
           THEN [rest EXCEPT
                   !.fragments = <<ParseContent(data).value[1]>> \o @]
           ELSE rest

\* the environment that selects the OpenAIProvider
OpenAIEnvironment ==
  [VITE_LLM_PROVIDER |-> "openai", VITE_GENAI_KEY |-> "", VITE_OPENAI_API_KEY |-> "ok"]

\* String(n) of a status code inside the template literal
RECURSIVE Decimal(_)
Decimal(n) ==
  LET digit == <<"0", "1", "2", "3", "4", "5", "6", "7", "8", "9">>[(n % 10) + 1]
  IN  IF n < 10 THEN <<digit>> ELSE Decimal(n \div 10) \o <<digit>>

\* the responses fetch resolves with: status, statusText and whether
\* response.body is a stream (hasBody) or null
Responses ==
  { [status |-> 200, statusText |-> "OK", hasBody |-> TRUE],
    [status |-> 200, statusText |-> "OK", hasBody |-> FALSE],
    [status |-> 401, statusText |-> "Unauthorized", hasBody |-> TRUE],
    [status |-> 500, statusText |-> "Internal Server Error", hasBody |-> TRUE] }

\* response.ok
ResponseOk(r) == r.status \in 200..299

\* a variant of the status test that takes every response for a success
ResponseAlwaysRead(r) == Ok(r)

\* the two throws between fetch and the read loop
ResponseCheck(r) ==
  IF ~ResponseOk(r)
  THEN Throw(<<"OpenAI API error: ">> \o Decimal(r.status)
               \o <<" ", r.statusText>>)
  ELSE IF ~r.hasBody THEN Throw(<<"Failed to get response reader">>)
  ELSE Ok(r)

\* generateStreamingResponse has been called and awaits fetch
InitOpenAI ==
  /\ messages = <<>>
  /\ isLoading = FALSE
  /\ error = None
  /\ abortControllerRef = None
  /\ llmProvider = None
  /\ turns = <<>>
  /\ nextId = 1
  /\ env = OpenAIEnvironment
  /\ lastEvent = Event("init", 0, FALSE)
  /\ responseBody = NoBody
  /\ unread = <<>>
  /\ buffer = <<>>
  /\ yielded = <<>>
  /\ readerLocked = FALSE
  /\ provider = Some("openai")
  /\ response = None
  /\ thrown = None
  /\ factories = BuiltInFactories
  /\ lastCall = [op |-> "init"]
  /\ llmHistory = <<>>
  /\ contents = None

\* fetch resolves with response r; a response that passes the checks
\* brings a body, of which nothing has been read yet
FetchResolves(r) ==
  LET checked == ResponseCheck(r)
  IN  /\ provider = Some("openai")
      /\ response = None
      /\ thrown = None
      /\ response' = Some(r)
      /\ IF checked.ok
         THEN /\ responseBody' \in Bodies
              /\ unread' = BodyText(responseBody')
              /\ readerLocked' = TRUE
              /\ thrown' = None
         ELSE /\ thrown' = Some(ProviderError(provider[1], Some(checked.message)))
              /\ UNCHANGED <<responseBody, unread, readerLocked>>
      /\ UNCHANGED <<buffer, yielded, provider, chat, registry, request>>

\* fetch rejects: the outer catch rethrows
FetchRejects(cause) ==
  /\ provider = Some("openai")
  /\ response = None
  /\ thrown = None
  /\ thrown' = Some(ProviderError(provider[1], cause))
  /\ UNCHANGED <<responseBody, unread, buffer, yielded, readerLocked,
                 provider, response, chat, registry, request>>

\* a variant of the read step that splits each chunk on its own and keeps no
\* rest of a line for the next one
ReadChunkWithoutBuffer(n) ==
  LET value == SubSeq(unread, 1, n)
      lines == Split(value)
      complete == SubSeq(lines, 1, Len(lines) - 1)
      result == ProcessLines(complete)
  IN  /\ readerLocked
      /\ n \in 1..Len(unread)
      /\ unread' = SubSeq(unread, n + 1, Len(unread))
      /\ buffer' = <<>>
      /\ yielded' = yielded \o result.fragments
      /\ readerLocked' = ~result.returned
      /\ UNCHANGED <<responseBody, provider, response, thrown, chat, registry, request>>

\* reader.read() returns the next n pieces of the body: they are decoded
\* and added to the buffer, the complete lines are split off and processed
ReadChunk(n) ==
  LET value == SubSeq(unread, 1, n)
      lines == Split(buffer \o value)
      complete == SubSeq(lines, 1, Len(lines) - 1)
      result == ProcessLines(complete)
  IN  /\ readerLocked
      /\ n \in 1..Len(unread)
      /\ unread' = SubSeq(unread, n + 1, Len(unread))
      /\ buffer' = lines[Len(lines)]
      /\ yielded' = yielded \o result.fragments
      /\ readerLocked' = ~result.returned
      /\ UNCHANGED <<responseBody, provider, response, thrown, chat, registry, request>>

\* reader.read() returns done: break, then the finally block
ReadDone ==
  /\ readerLocked
  /\ unread = <<>>
  /\ readerLocked' = FALSE
  /\ UNCHANGED <<responseBody, unread, buffer, yielded,
                 provider, response, thrown, chat, registry, request>>

\* reader.read() rejects: the finally block, then the outer catch rethrows
ReadRejects(cause) ==
  /\ readerLocked
  /\ readerLocked' = FALSE
  /\ thrown' = Some(ProviderError(provider[1], cause))
  /\ UNCHANGED <<responseBody, unread, buffer, yielded,
                 provider, response, chat, registry, request>>

NextOpenAI ==
  \/ \E r \in Responses : FetchResolves(r)
  \/ \E cause \in Causes : FetchRejects(cause)
  \/ \E n \in 1..Len(unread) : ReadChunk(n)
  \/ ReadDone
  \/ \E cause \in Causes : ReadRejects(cause)

SpecOpenAI == InitOpenAI /\ [][NextOpenAI]_vars

\* --------------------------- GoogleGenAIProvider.generateStreamingResponse
\* the chunk.text values of the SDK's stream: "" stands for a chunk without
\* text
GoogleChunks ==
  UNION { [1..n -> {"Hel", "lo", ""}] : n \in 0..MaxLines }

\* generateStreamingResponse has been called and awaits generateContentStream
InitGoogle ==
  /\ messages = <<>>
  /\ isLoading = FALSE
  /\ error = None
  /\ abortControllerRef = None
  /\ llmProvider = None
  /\ turns = <<>>
  /\ nextId = 1
  /\ env = [VITE_LLM_PROVIDER |-> "", VITE_GENAI_KEY |-> "gk", VITE_OPENAI_API_KEY |-> ""]
  /\ lastEvent = Event("init", 0, FALSE)
  /\ responseBody = NoBody
  /\ unread = <<>>
  /\ buffer = <<>>
  /\ yielded = <<>>
  /\ readerLocked = FALSE
  /\ provider = Some("google-genai")
  /\ response = None
  /\ thrown = None
  /\ factories = BuiltInFactories
  /\ lastCall = [op |-> "init"]
  /\ llmHistory = <<>>
  /\ contents = None

\* the SDK's stream, not yet exhausted
Streaming == Some([done |-> FALSE])

\* generateContentStream resolves with a stream of chunks
GenerateContentStream ==
  /\ provider = Some("google-genai")
  /\ response = None
  /\ thrown = None
  /\ response' = Streaming
  /\ unread' \in GoogleChunks
  /\ UNCHANGED <<responseBody, buffer, yielded, readerLocked, provider,
                 thrown, chat, registry, request>>

\* for await (const chunk of response): if (chunk.text) yield chunk.text
NextChunk ==
  /\ provider = Some("google-genai")
  /\ response = Streaming
  /\ thrown = None
  /\ unread # <<>>
  /\ yielded' = IF Head(unread) # "" THEN Append(yielded, Head(unread))
                ELSE yielded
  /\ unread' = Tail(unread)
  /\ UNCHANGED <<responseBody, buffer, readerLocked, provider, response,
                 thrown, chat, registry, request>>

\* the stream is exhausted: the generator returns
StreamEnds ==
  /\ provider = Some("google-genai")
  /\ response = Streaming
  /\ thrown = None
  /\ unread = <<>>
  /\ response' = Some([done |-> TRUE])
  /\ UNCHANGED <<responseBody, unread, buffer, yielded, readerLocked,
                 provider, thrown, chat, registry, request>>

\* generateContentStream or the stream's iterator rejects: the catch rethrows
GenerateRejects(cause) ==
  /\ provider = Some("google-genai")
  /\ response \in {None, Streaming}
  /\ thrown = None
  /\ thrown' = Some(ProviderError(provider[1], cause))
  /\ UNCHANGED <<responseBody, unread, buffer, yielded, readerLocked,
                 provider, response, chat, registry, request>>

NextGoogle ==
  \/ GenerateContentStream
  \/ NextChunk
  \/ StreamEnds
  \/ \E cause \in Causes : GenerateRejects(cause)

\* one generateStreamingResponse call of either provider
InitProviders == InitOpenAI \/ InitGoogle

NextProviders == NextOpenAI \/ NextGoogle

SpecProviders == InitProviders /\ [][NextProviders]_vars

\* ------------------------------------- llmRegistry and LLMServiceFactory
\* the environments of the registry calls: those of the hook, the one that
\* selects the OpenAIProvider, and google-genai selected without its key
RegistryEnvironments ==
  Environments \cup
  { OpenAIEnvironment,
    [VITE_LLM_PROVIDER |-> "google-genai", VITE_GENAI_KEY |-> "", VITE_OPENAI_API_KEY |-> "ok"] }

\* the module has been loaded: the singleton holds the built-in factories
InitRegistry ==
  /\ messages = <<>>
  /\ isLoading = FALSE
  /\ error = None
  /\ abortControllerRef = None
  /\ llmProvider = None
  /\ turns = <<>>
  /\ nextId = 1
  /\ env \in RegistryEnvironments
  /\ lastEvent = Event("init", 0, FALSE)
  /\ responseBody = NoBody
  /\ unread = <<>>
  /\ buffer = <<>>
  /\ yielded = <<>>
  /\ readerLocked = FALSE
  /\ provider = None
  /\ response = None
  /\ thrown = None
  /\ factories = BuiltInFactories
  /\ lastCall = [op |-> "init"]
  /\ llmHistory = <<>>
  /\ contents = None

\* llmRegistry.register(type, factory)
Register(type, factory) ==
  /\ factories' = MapSet(factories, type, factory)
  /\ lastCall' = [op |-> "register", type |-> type, factory |-> factory]
  /\ UNCHANGED <<chat, openAIStream, request>>

\* llmRegistry.create(type, config), also through LLMServiceFactory.create
Create(type, config) ==
  /\ lastCall' = [op |-> "create", type |-> type, config |-> config,
                  invoked |-> Invocations(type, config),
                  outcome |-> RegistryCreate(type, config)]
  /\ UNCHANGED <<factories, chat, openAIStream, request>>

\* llmRegistry.getAvailableProviders()
GetAvailableProviders ==
  /\ lastCall' = [op |-> "getAvailableProviders",
                  outcome |-> Ok(MapKeys(factories))]
  /\ UNCHANGED <<factories, chat, openAIStream, request>>

\* LLMServiceFactory.createFromEnvironment()
CreateFromEnvironmentCall ==
  LET providerType ==
        IF env.VITE_LLM_PROVIDER = "" THEN "google-genai"
        ELSE env.VITE_LLM_PROVIDER
      config == GetConfigForProvider(providerType, env)
  IN  /\ lastCall' = [op |-> "createFromEnvironment", type |-> providerType,
                      invoked |-> IF config.ok
                                  THEN Invocations(providerType, config.value)
                                  ELSE <<>>,
                      outcome |-> CreateFromEnvironment(env)]
      /\ UNCHANGED <<factories, chat, openAIStream, request>>

NextRegistry ==
  \/ \E type \in ProviderTypes, factory \in Factories : Register(type, factory)
  \/ \E type \in ProviderTypes, config \in Configs : Create(type, config)
  \/ GetAvailableProviders
  \/ CreateFromEnvironmentCall

SpecRegistry == InitRegistry /\ [][NextRegistry]_vars

\* ------------------------------------------- the calls of a provider
\* the texts of the turns of a history
Quadratic == <<"q", "u", "a", "d", "r", "a", "t", "i", "c">>
HelloWorld == <<"h", "e", "l", "l", "o", " ", "w", "o", "r", "l", "d">>
TwoPlusTwo == <<"2", "+", "2", "=", "?">>
Texts ==
  { Quadratic, HelloWorld, TwoPlusTwo,
    <<"S", "o", "l", "v", "e">>, <<"m", "a", "t", "h", "s">>, <<"x", "^", "2">>,
    <<"y", "^", "2">>, CaretTwo, XCaret,
    <<"(", "a", ")", "^", "2">>, <<"m", "a", "t", "h", "é">>, <<>> }

\* the images? field of a turn: absent, empty, one image, two images
Attachments ==
  { None, Some(<<>>),
    Some(<<[type |-> "image/png", data |-> "AAAA"]>>),
    Some(<<[type |-> "image/jpeg", data |-> "BBBB"],
           [type |-> "image/png", data |-> "AAAA"]>>) }

\* the histories a provider is called with: a user turn, with or without
\* images, and possibly an assistant turn after it
Histories ==
  LET user == {[role |-> "user", content |-> text, images |-> images] :
                 text \in Texts, images \in Attachments}
      assistant == {[role |-> "assistant", content |-> text, images |-> None] :
                      text \in Texts}
  IN  {<<u>> : u \in user} \cup {<<u, a>> : u \in user, a \in assistant}

\* generateStreamingResponse(messages) has been called on a provider
InitRequest ==
  /\ messages = <<>>
  /\ isLoading = FALSE
  /\ error = None
  /\ abortControllerRef = None
  /\ llmProvider = None
  /\ turns = <<>>
  /\ nextId = 1
  /\ provider \in {Some("google-genai"), Some("openai")}
  /\ env = IF provider = Some("openai") THEN OpenAIEnvironment
           ELSE [VITE_LLM_PROVIDER |-> "", VITE_GENAI_KEY |-> "gk",
                 VITE_OPENAI_API_KEY |-> ""]
  /\ lastEvent = Event("init", 0, FALSE)
  /\ responseBody = NoBody
  /\ unread = <<>>
  /\ buffer = <<>>
  /\ yielded = <<>>
  /\ readerLocked = FALSE
  /\ response = None
  /\ thrown = None
  /\ factories = BuiltInFactories
  /\ lastCall = [op |-> "init"]
  /\ llmHistory \in Histories
  /\ contents = None

\* GoogleGenAIProvider: the conversion and the math detection that precede
\* the request
BuildContents ==
  /\ provider = Some("google-genai")
  /\ contents = None
  /\ contents' = Some(GoogleContents(llmHistory))
  /\ UNCHANGED <<llmHistory, chat, openAIStream, registry>>

\* OpenAIProvider: the conversion and the math detection that precede fetch
BuildOpenAIMessages ==
  /\ provider = Some("openai")
  /\ contents = None
  /\ contents' = Some(OpenAIMessages(llmHistory))
  /\ UNCHANGED <<llmHistory, chat, openAIStream, registry>>

NextRequest == BuildContents \/ BuildOpenAIMessages

SpecRequest == InitRequest /\ [][NextRequest]_vars

\* ================================================================ claims
TurnIds == 1..Len(turns)

StreamEvent(op, t) == lastEvent' = Event(op, t, FALSE)

HasMessage(ms, id) == \E i \in 1..Len(ms) : ms[i].id = id

MessageOf(ms, id) == ms[CHOOSE i \in 1..Len(ms) : ms[i].id = id]

LoadingMessages == {i \in 1..Len(messages) : messages[i].isLoading}

\* the turns in flight: started, not returned, no clearChat since their start
InFlight == {t \in TurnIds : Running(t) /\ ~turns[t].cancelled}

\* C1: in every reachable state at most one message of the list has
\* isLoading = true.
AtMostOneLoadingMessage == Cardinality(LoadingMessages) <= 1

\* C2: at most one provider stream is consumed at a time: once a newer turn
\* has been started, the loop of an earlier turn merges no further chunk, so
\* a chunk is only ever accepted by the most recently started turn.
OnlyNewestStreamConsumed ==
  [][\A t \in TurnIds :
       ( /\ Running(t)
         /\ StreamEvent("chunk", t)
         /\ turns'[t].accumulatedContent # turns[t].accumulatedContent )
       => t = Len(turns)]_vars

\* C3: after clearChat has cancelled a running turn, no stream event of that
\* turn (chunk, completion, failure) changes the message list, the loading
\* flag or the error field.
CancelledTurnWritesNothing ==
  [][\A t \in TurnIds :
       ( /\ Running(t)
         /\ turns[t].cancelled
         /\ \E op \in {"chunk", "done", "throw"} : StreamEvent(op, t) )
       => UNCHANGED <<messages, isLoading, error>>]_vars

\* the list after the step is the list before it followed by one user
\* message and one assistant message
AppendsUserThenAssistant ==
  LET n == Len(messages)
  IN  /\ Len(messages') = n + 2
      /\ SubSeq(messages', 1, n) = messages
      /\ messages'[n + 1].role = "user"
      /\ messages'[n + 2].role = "assistant"

\* C4 as stated: every call sendMessage(text, images) with non-empty text or
\* non-empty images appends exactly one user message and then exactly one
\* assistant message.
SendAlwaysAppendsPair ==
  [][\A in \in SendInputs :
       ( /\ lastEvent'.op = "sendMessage"
         /\ in[1] # <<>> \/ HasLength(in[2])
         /\ sendMessage(in[1], in[2]) )
       => AppendsUserThenAssistant]_vars

\* C4 as amended: a call sendMessage(text, images) made while the loading
\* flag is false, with non-empty trimmed text or non-empty images, leaves the
\* list before the call followed by exactly one user message (trimmed text,
\* the images) and then exactly one loading assistant placeholder; when the
\* provider cannot be constructed the placeholder is removed again within
\* the call and only the user message follows.
SendAppendsPairWhenIdle ==
  [][\A in \in SendInputs :
       ( /\ lastEvent'.op = "sendMessage"
         /\ Trim(in[1]) # <<>> \/ HasLength(in[2])
         /\ ~isLoading
         /\ sendMessage(in[1], in[2]) )
       => LET n == Len(messages)
          IN  /\ Len(messages') >= n + 1
              /\ SubSeq(messages', 1, n) = messages
              /\ messages'[n + 1].role = "user"
              /\ messages'[n + 1].content = Trim(in[1])
              /\ messages'[n + 1].images = in[2]
              /\ ~messages'[n + 1].isLoading
              /\ IF llmProvider # None \/ CreateFromEnvironment(env).ok
                 THEN /\ Len(messages') = n + 2
                      /\ messages'[n + 2].role = "assistant"
                      /\ messages'[n + 2].isLoading
                      /\ messages'[n + 2].content = <<>>
                      /\ messages'[n + 2].id # messages'[n + 1].id
                 ELSE Len(messages') = n + 1]_vars

\* C4 witness: a sendMessage call has just appended a user message and a
\* placeholder to a list that already held an earlier exchange.
SendAppendedPair ==
  /\ lastEvent.op = "sendMessage" /\ lastEvent.started
  /\ Len(messages) >= 4
  /\ messages[Len(messages) - 1].role = "user"
  /\ messages[Len(messages)].role = "assistant"
  /\ messages[Len(messages)].isLoading

\* C5: sendMessage with empty trimmed text and no images changes neither the
\* message list, the loading flag, the error field nor the cancellation
\* token, resolves no provider and starts no stream.
EmptySendIsNoOp ==
  [][\A in \in SendInputs :
       ( /\ lastEvent'.op = "sendMessage"
         /\ Trim(in[1]) = <<>>
         /\ ~HasLength(in[2])
         /\ sendMessage(in[1], in[2]) )
       => UNCHANGED <<messages, isLoading, error, abortControllerRef,
                      llmProvider, turns, nextId>>]_vars

\* C5 witness: an idle controller with a conversation and an error showing
\* has just taken a sendMessage call that returned early.
EmptySendReturned ==
  /\ lastEvent = Event("sendMessage", 0, FALSE)
  /\ ~isLoading
  /\ messages # <<>>
  /\ error # None

\* C6: sendMessage and retryLastMessage called while a turn is in flight
\* leave the message list unchanged, do not cancel the turn and start no
\* second stream.
CallInFlightIsNoOp ==
  [][( /\ InFlight # {}
       /\ lastEvent'.op \in {"sendMessage", "retryLastMessage"} )
     => UNCHANGED <<messages, abortControllerRef, turns>>]_vars

\* C7: when the stream of a turn that was not cancelled has yielded
\* fragments f1..fn (n >= 1) and completes, the turn's assistant message has
\* content f1 + ... + fn and isLoading = false.
CompletionKeepsConcatenation ==
  [][\A t \in TurnIds :
       ( /\ Running(t)
         /\ ~turns[t].cancelled
         /\ turns[t].received # <<>>
         /\ StreamEvent("done", t) )
       => /\ HasMessage(messages', turns[t].assistantMessageId)
          /\ MessageOf(messages', turns[t].assistantMessageId).content
               = Concat(turns[t].received)
          /\ ~MessageOf(messages', turns[t].assistantMessageId).isLoading]_vars

\* C8: when the stream of a turn completes without having yielded a
\* fragment, the turn's assistant message has the fallback text
\* "No response generated." and isLoading = false.
EmptyCompletionGivesFallback ==
  [][\A t \in TurnIds :
       ( /\ Running(t)
         /\ ~turns[t].cancelled
         /\ turns[t].received = <<>>
         /\ StreamEvent("done", t) )
       => /\ HasMessage(messages', turns[t].assistantMessageId)
          /\ MessageOf(messages', turns[t].assistantMessageId).content
               = NoResponseGenerated
          /\ ~MessageOf(messages', turns[t].assistantMessageId).isLoading]_vars

\* C9: when the stream of a turn that was not cancelled fails, before or
\* after fragments were merged, the turn's assistant message is no longer in
\* the list, the error field holds the failure's message text, the loading
\* flag is false and the turn's user message is still in the list.
FailureRemovesAssistantMessage ==
  [][\A t \in TurnIds :
       ( /\ Running(t)
         /\ ~turns[t].cancelled
         /\ StreamEvent("throw", t) )
       => /\ ~HasMessage(messages', turns[t].assistantMessageId)
          /\ HasMessage(messages', turns[t].userMessageId)
          /\ MessageOf(messages', turns[t].userMessageId).role = "user"
          /\ \E cause \in Causes :
                error' = Some(ProviderError(llmProvider[1].name, cause).message)
          /\ ~isLoading']_vars

\* C9 witness: a stream has just failed, the error is showing and the list
\* ends with the user message of the failed turn.
StreamFailed ==
  /\ lastEvent.op = "throw"
  /\ error # None
  /\ ~isLoading
  /\ messages # <<>>
  /\ messages[Len(messages)].role = "user"

\* C10: the loading flag is false after every outcome of a turn: each
\* completion, failure and cancellation (clearChat, the loop's break) leaves
\* it false, and it is never true when no turn is running.
LoadingClearedInAllOutcomes ==
  /\ []((\A t \in TurnIds : ~Running(t)) => ~isLoading)
  /\ [][\A t \in TurnIds :
          (Running(t) /\ turns'[t].pc = "done") => ~isLoading']_vars
  /\ [][lastEvent'.op = "clearChat" => ~isLoading']_vars

\* C10 witness: a cancelled turn has just left its loop at the abort check
\* and no turn is running any more.
CancelledTurnReturned ==
  /\ lastEvent.op = "chunk"
  /\ turns[lastEvent.turn].pc = "done"
  /\ \A t \in TurnIds : ~Running(t)
  /\ ~isLoading

\* C11: immediately after every clearChat the message list is empty, the
\* error field is null, the loading flag is false, and for every turn that
\* was in flight the controller holds that turn's token in the aborted state.
ClearChatAbortsTurnsInFlight ==
  [][lastEvent'.op = "clearChat"
       => /\ messages' = <<>>
          /\ error' = None
          /\ ~isLoading'
          /\ \A t \in InFlight :
               abortControllerRef' = Some([id |-> t, aborted |-> TRUE])]_vars

\* C12: the next fragment that reaches a cancelled turn ends the turn's loop
\* without being accumulated or merged and without an error, also when a
\* newer turn has replaced the controller's token in between.
CancelledLoopStopsAtNextFragment ==
  [][\A t \in TurnIds :
       ( /\ Running(t)
         /\ turns[t].cancelled
         /\ StreamEvent("chunk", t) )
       => /\ turns'[t].pc = "done"
          /\ UNCHANGED <<messages, error>>]_vars

\* C13: in every reachable state a message with isLoading = true is the last
\* element of the message list.
LoadingMessageIsLast ==
  \A i \in LoadingMessages : i = Len(messages)

\* the positions of the user messages in the list
UserPositions == {i \in 1..Len(messages) : messages[i].role = "user"}

\* the list without its last element when that element is an assistant message
WithoutTrailingAssistant ==
  IF messages # <<>> /\ messages[Len(messages)].role = "assistant"
  THEN SubSeq(messages, 1, Len(messages) - 1)
  ELSE messages

\* the list after the step is base followed by one new assistant placeholder
EndsWithNewPlaceholder(base) ==
  LET n == Len(base)
  IN  /\ Len(messages') = n + 1
      /\ SubSeq(messages', 1, n) = base
      /\ messages'[n + 1].role = "assistant"
      /\ messages'[n + 1].isLoading
      /\ messages'[n + 1].content = <<>>
      /\ \A i \in 1..Len(messages) : messages[i].id # messages'[n + 1].id

\* C14: retryLastMessage called when the list holds no user message changes
\* neither the message list, the loading flag nor the error field, and
\* starts no stream (no turn, no controller, no provider).
RetryWithoutUserMessageIsNoOp ==
  [][(lastEvent'.op = "retryLastMessage" /\ UserPositions = {})
       => UNCHANGED <<messages, isLoading, error, turns, abortControllerRef,
                      llmProvider, nextId>>]_vars

\* C14 witness: retryLastMessage has just returned early on an empty list
\* although the loading flag was false.
RetryWithoutUserMessageReturned ==
  /\ lastEvent = Event("retryLastMessage", 0, FALSE)
  /\ messages = <<>>
  /\ ~isLoading

\* C15 as stated: whenever retryLastMessage runs (a user message exists, no
\* turn is in flight) the resulting list is the previous list without a
\* trailing assistant message, followed by exactly one new placeholder.
RetryAlwaysEndsWithPlaceholder ==
  [][( /\ lastEvent'.op = "retryLastMessage"
       /\ UserPositions # {}
       /\ InFlight = {} )
       => EndsWithNewPlaceholder(WithoutTrailingAssistant)]_vars

\* C15: when retryLastMessage runs (a user message exists, no turn is in
\* flight) and the provider is available, the resulting list is the previous
\* list without a trailing assistant message, followed by exactly one new
\* placeholder; when the provider cannot be constructed the resulting list is
\* the previous list without a trailing assistant message.
RetryRebuildsTail ==
  [][( /\ lastEvent'.op = "retryLastMessage"
       /\ UserPositions # {}
       /\ InFlight = {} )
       => IF GetLLM.ok
          THEN EndsWithNewPlaceholder(WithoutTrailingAssistant)
          ELSE messages' = WithoutTrailingAssistant]_vars

\* C15 witness: retryLastMessage has just replaced the assistant message that
\* followed the only user message by a new placeholder.
RetryReplacedReply ==
  /\ lastEvent.op = "retryLastMessage"
  /\ lastEvent.started
  /\ Running(lastEvent.turn)
  /\ Len(messages) = 2
  /\ messages[1].role = "user"
  /\ messages[2].isLoading
  /\ messages[2].id = messages[1].id + 2

\* C16: the history a started retry hands to the provider is the list at
\* call time without a trailing assistant message, in order, followed by the
\* most recent user message once more.
RetryHistoryRepeatsLastUser ==
  [][( /\ lastEvent'.op = "retryLastMessage"
       /\ lastEvent'.started
       /\ turns'[lastEvent'.turn].pc = "streaming" )
       => LET last == CHOOSE i \in UserPositions :
                        \A j \in UserPositions : j <= i
          IN  turns'[lastEvent'.turn].llmMessages
                = MapLLM(Append(WithoutTrailingAssistant, messages[last]))]_vars

\* C16 witness: a retry has just started on a conversation with an earlier
\* assistant reply; its history ends with the last user message twice.
RetryStartedWithHistory ==
  /\ lastEvent.op = "retryLastMessage"
  /\ lastEvent.started
  /\ Running(lastEvent.turn)
  /\ LET h == turns[lastEvent.turn].llmMessages
     IN  /\ Len(h) = 4
         /\ h[2].role = "assistant"
         /\ h[3].role = "user"
         /\ h[4] = h[3]

CancellationIsIdempotent ==
  /\ [][(lastEvent.op = "clearChat" /\ lastEvent'.op = "clearChat")
          => UNCHANGED vars]_vars
  /\ [][( /\ TurnIds # {}
          /\ \A t \in TurnIds : ~Running(t)
          /\ lastEvent'.op = "clearChat" )
          => /\ messages' = <<>> /\ error' = None /\ ~isLoading'
             /\ UNCHANGED <<abortControllerRef, turns, llmProvider>>]_vars
  /\ [][( /\ lastEvent.op = "clearChat"
          /\ lastEvent'.started
          /\ turns'[lastEvent'.turn].pc = "streaming" )
          => /\ abortControllerRef'
                  = Some([id |-> lastEvent'.turn, aborted |-> FALSE])
             /\ ~turns'[lastEvent'.turn].cancelled
             /\ error' = None]_vars

\* C18 witness: clearChat has aborted the token of a turn whose loop has not
\* yet seen it; a second clearChat in this state is the case of the claim.
ClearedWhileStreaming ==
  /\ lastEvent.op = "clearChat"
  /\ abortControllerRef # None
  /\ abortControllerRef[1].aborted
  /\ \E t \in TurnIds : Running(t) /\ turns[t].cancelled

\* C19: no provider is kept before the first turn; the provider kept is the
\* first one constructed for the controller and is never replaced; every
\* running turn streams from that provider.
ProviderConstructedOnce ==
  /\ [](Len(turns) = 0 => llmProvider = None)
  /\ [](llmProvider # None => llmProvider[1].instance = 1)
  /\ [](\A t \in TurnIds : Running(t) => turns[t].llm = llmProvider)
  /\ [][llmProvider # None => llmProvider' = llmProvider]_vars

\* C19 witness: a second or later turn is streaming from the provider that
\* was constructed first.
LaterTurnUsesFirstProvider ==
  /\ Len(turns) >= 2
  /\ Running(Len(turns))
  /\ llmProvider # None
  /\ turns[Len(turns)].llm = llmProvider
  /\ llmProvider[1].instance = 1

\* the position of the first line data: [DONE] of the body, or one past the
\* last line when there is none
FirstDone ==
  LET dones == {i \in 1..Len(responseBody.lines) :
                  responseBody.lines[i] = DataPrefix \o DoneSentinel}
  IN  IF dones = {} THEN Len(responseBody.lines) + 1
      ELSE CHOOSE i \in dones : \A j \in dones : i <= j

\* the content of the lines ls that carry a non-empty content delta, in order
RECURSIVE ContentFragments(_)
ContentFragments(ls) ==
  IF ls = <<>> THEN <<>>
  ELSE (IF \E c \in {"Hel", "lo"} : Head(ls) = ContentLine(c)
        THEN <<Head(ls)[4]>> ELSE <<>>) \o ContentFragments(Tail(ls))

IsPrefix(s, t) == Len(s) <= Len(t) /\ SubSeq(t, 1, Len(s)) = s

\* the first line data: [DONE] and its line feed have been returned by
\* reader.read()
DoneRead ==
  /\ FirstDone <= Len(responseBody.lines)
  /\ FirstDone < Len(responseBody.lines) \/ responseBody.terminated
  /\ Len(BodyText(responseBody)) - Len(unread)
       >= Len(BodyText([lines |-> SubSeq(responseBody.lines, 1, FirstDone),
                        terminated |-> TRUE]))

\* C20: the fragments yielded are at every moment a prefix of the content of
\* the lines before the first data: [DONE], so nothing that follows it in
\* the same chunk or in a later one is yielded, and once that line has been
\* read the generator has ended and released the reader.
DoneEndsSequence ==
  /\ IsPrefix(yielded, ContentFragments(SubSeq(responseBody.lines, 1, FirstDone - 1)))
  /\ DoneRead => (~readerLocked /\ thrown = None)

\* C20 witness: the generator has returned at data: [DONE] after yielding a
\* fragment, with a content line after [DONE] in the body and a part of the
\* body still unread.
ReturnedAtDone ==
  /\ ~readerLocked
  /\ thrown = None
  /\ DoneRead
  /\ unread # <<>>
  /\ yielded # <<>>
  /\ \E i \in (FirstDone + 1)..Len(responseBody.lines) :
       responseBody.lines[i] = ContentLine("lo")

\* the number of lines of the body that reader.read() has returned together
\* with their line feed
LinesRead ==
  LET text == BodyText(responseBody)
  IN  Cardinality({i \in 1..(Len(text) - Len(unread)) : text[i] = LF})

InvalidLine == DataPrefix \o <<JSONOpen, "Hel">>

Min(a, b) == IF a <= b THEN a ELSE b

StatusDigits(status) ==
  IF status = 401 THEN <<"4", "0", "1">>
  ELSE IF status = 500 THEN <<"5", "0", "0">>
  ELSE <<"2", "0", "0">>

\* C22: once fetch has resolved with a status outside 200..299 the generator
\* has thrown an error whose message holds the status code and the status
\* text, no fragment was or will be yielded, and the body is never read (no
\* reader is taken).
NonOkResponseFails ==
  (response # None /\ response[1].status \notin 200..299)
    => /\ thrown # None
       /\ thrown[1].message
            = <<"openai", " Error: ",
                <<"OpenAI API error: ">> \o StatusDigits(response[1].status)
                  \o <<" ", response[1].statusText>>>>
       /\ yielded = <<>>
       /\ ~readerLocked
       /\ responseBody = NoBody /\ unread = <<>> /\ buffer = <<>>

\* C22 witness: fetch has resolved with 500 Internal Server Error and the
\* generator has thrown.
ServerErrorThrown ==
  /\ response # None
  /\ response[1].status = 500
  /\ thrown # None

\* the step is a failure of the generator: it throws
GeneratorThrows == thrown = None /\ thrown' # None

\* the thrown message is the provider's name, " Error: " and the message of
\* the step's cause
CarriesCauseMessage ==
  LET m == thrown'[1].message
  IN  /\ Len(m) = 3
      /\ m[1] = provider[1]
      /\ m[2] = " Error: "
      /\ IF response' # response
         THEN m[3] = ResponseCheck(response'[1]).message
         ELSE m[3] \in {"network down"}

\* C23 as stated: every failure of generateStreamingResponse of either
\* provider reaches the consumer as one error that carries the provider's
\* name and the message of the underlying cause, and leaves the fragments
\* already yielded as they are.
EveryFailureCarriesCause ==
  [][GeneratorThrows => (CarriesCauseMessage /\ yielded' = yielded)]_vars

\* C23: every failure of generateStreamingResponse of either provider
\* reaches the consumer as one error that names the provider; it carries the
\* message of the underlying cause when the cause is an Error and is
\* "Failed to generate response from <name>" otherwise; the fragments already
\* yielded stay as they are and nothing is yielded or thrown afterwards.
EveryFailureNamesProvider ==
  /\ [][GeneratorThrows
          => /\ \/ CarriesCauseMessage
                \/ /\ response' = response
                   /\ thrown'[1].message
                        = <<"Failed to generate response from ", provider[1]>>
             /\ yielded' = yielded]_vars
  /\ [][thrown # None => UNCHANGED <<thrown, yielded>>]_vars

\* C23 witness: the Google provider's stream has failed after a fragment was
\* yielded, with an Error as its cause.
GoogleStreamFailed ==
  /\ provider = Some("google-genai")
  /\ thrown # None
  /\ Len(thrown[1].message) = 3
  /\ yielded # <<>>

\* ------------------------------------------------------- registry claims
\* the number of entries of a list of provider types that are the given type
Occurrences(keys, type) == Cardinality({i \in 1..Len(keys) : keys[i] = type})

\* C24: a create(type, config) call leaves the registry as it was; when a
\* factory is registered under type it invokes that factory and no other,
\* once, with config, and returns what the factory returns; when none is
\* registered it invokes no factory and throws an error whose message is
\* "LLM provider type '<type>' is not registered".
CreateInvokesRegisteredFactory ==
  [][lastCall'.op = "create" =>
       LET registered == MapGet(factories, lastCall'.type)
       IN  /\ factories' = factories
           /\ IF registered # None
              THEN /\ lastCall'.invoked =
                        <<[factory |-> registered[1],
                           config |-> lastCall'.config]>>
                   /\ lastCall'.outcome =
                        Invoke(registered[1], lastCall'.config)
              ELSE /\ lastCall'.invoked = <<>>
                   /\ ~lastCall'.outcome.ok
                   /\ lastCall'.outcome.message =
                        <<"LLM provider type '", lastCall'.type,
                          "' is not registered">>]_vars

\* create was called for a type nobody registered, after a client had
\* registered a factory under another type
CreateOfUnregisteredType ==
  /\ lastCall.op = "create"
  /\ lastCall.type = "anthropic"
  /\ MapGet(factories, "anthropic") = None
  /\ MapGet(factories, "custom") = Some("ClientProvider")
  /\ ~lastCall.outcome.ok

\* C25: register(type, factory) makes factory the one looked up under type,
\* overwriting a built-in or an earlier registration, and leaves the entry of
\* every other type as it was; no other call changes the registry, so create
\* uses the factory most recently registered under its type; and the list
\* getAvailableProviders() returns holds every registered type exactly once.
RegisterOverwritesOneEntry ==
  /\ [][/\ lastCall'.op = "register" =>
             /\ MapGet(factories', lastCall'.type) = Some(lastCall'.factory)
             /\ \A other \in ProviderTypes \ {lastCall'.type} :
                  MapGet(factories', other) = MapGet(factories, other)
        /\ lastCall'.op # "register" => factories' = factories
        /\ lastCall'.op = "create" /\ lastCall.op = "register"
             /\ lastCall'.type = lastCall.type =>
             lastCall'.outcome = Invoke(lastCall.factory, lastCall'.config)]_vars
  /\ [](lastCall.op = "getAvailableProviders" =>
          \A type \in ProviderTypes :
            Occurrences(lastCall.outcome.value, type) =
              IF MapGet(factories, type) # None THEN 1 ELSE 0)

\* a client's factory registered over the built-in one is the one create used
CreatedByOverwritingFactory ==
  /\ lastCall.op = "create"
  /\ lastCall.type = "google-genai"
  /\ MapGet(factories, "google-genai") = Some("ClientProvider")
  /\ MapGet(factories, "openai") = Some("OpenAIProvider")
  /\ lastCall.outcome = Ok([name |-> "client"])

\* C26: when the provider type the environment selects is neither
\* google-genai nor openai, createFromEnvironment throws "No environment
\* configuration available for provider: <type>" and invokes no factory,
\* whether or not a factory is registered under that type.
UncoveredTypeFailsBeforeLookup ==
  lastCall.op = "createFromEnvironment"
    /\ lastCall.type \notin {"google-genai", "openai"} =>
    /\ ~lastCall.outcome.ok
    /\ lastCall.outcome.message =
         <<"No environment configuration available for provider: ",
           lastCall.type>>
    /\ lastCall.invoked = <<>>

\* createFromEnvironment failed for anthropic although a client had
\* registered a factory under anthropic
UncoveredTypeFailedThoughRegistered ==
  /\ lastCall.op = "createFromEnvironment"
  /\ lastCall.type = "anthropic"
  /\ MapGet(factories, "anthropic") = Some("ClientProvider")
  /\ ~lastCall.outcome.ok

\* the key a built-in provider instance sends with its requests: the one
\* its GoogleGenAI client was built with, or this.apiKey
Credentials(p) ==
  IF p.name = "google-genai" THEN p.client[1].apiKey ELSE p.apiKey

\* the API-key variable of the provider type a createFromEnvironment selected
SelectedKey ==
  IF lastCall.type = "google-genai" THEN env.VITE_GENAI_KEY
  ELSE env.VITE_OPENAI_API_KEY

\* the call invoked the constructor of one of the two provider variants
InvokedBuiltIn ==
  /\ lastCall.op \in {"create", "createFromEnvironment"}
  /\ lastCall.invoked # <<>>
  /\ lastCall.invoked[1].factory \in {"GoogleGenAIProvider", "OpenAIProvider"}

\* no instance of a provider variant holds an empty key
NoInstanceWithEmptyKey ==
  lastCall.op \in {"create", "createFromEnvironment"}
    /\ lastCall.outcome.ok
    /\ lastCall.outcome.value.name \in BuiltInProviders =>
    Credentials(lastCall.outcome.value) # ""

\* the statement of C27 as it stands: createFromEnvironment fails whenever
\* the API-key variable of the selected type is unset
KeylessEnvironmentAlwaysFails ==
  /\ InvokedBuiltIn /\ lastCall.invoked[1].config.apiKey = "" =>
       ~lastCall.outcome.ok
  /\ lastCall.op = "createFromEnvironment"
       /\ lastCall.type \in BuiltInProviders /\ SelectedKey = "" =>
       ~lastCall.outcome.ok
  /\ NoInstanceWithEmptyKey

\* C27: a constructor of either provider variant that is given an empty API
\* key throws "... API key is required" and yields no instance;
\* createFromEnvironment therefore fails when the API-key variable of the
\* selected type is unset and the factory registered under that type is one
\* of the two built-in ones; and every instance of a provider variant holds
\* a non-empty key, so no request carries an empty one.
EmptyKeyFailsAtConstruction ==
  /\ InvokedBuiltIn /\ lastCall.invoked[1].config.apiKey = "" =>
       /\ ~lastCall.outcome.ok
       /\ lastCall.outcome.message \in
            {<<"Google GenAI API key is required">>,
             <<"OpenAI API key is required">>}
  /\ lastCall.op = "createFromEnvironment"
       /\ lastCall.type \in BuiltInProviders /\ SelectedKey = ""
       /\ MapGet(factories, lastCall.type) # None
       /\ MapGet(factories, lastCall.type)[1] # "ClientProvider" =>
       /\ InvokedBuiltIn
       /\ lastCall.invoked[1].config.apiKey = ""
       /\ ~lastCall.outcome.ok
  /\ NoInstanceWithEmptyKey

\* openai was selected with VITE_OPENAI_API_KEY unset and the constructor threw
OpenAIKeyMissing ==
  /\ lastCall.op = "createFromEnvironment"
  /\ lastCall.type = "openai"
  /\ env.VITE_OPENAI_API_KEY = ""
  /\ lastCall.invoked = <<[factory |-> "OpenAIProvider", config |-> [apiKey |-> ""]]>>
  /\ lastCall.outcome = Throw(<<"OpenAI API key is required">>)

\* C28: for every instance of either provider variant, isConfigured() is
\* true exactly when the instance holds a non-empty API key.
ConfiguredIffCredentials ==
  lastCall.op \in {"create", "createFromEnvironment"}
    /\ lastCall.outcome.ok
    /\ lastCall.outcome.value.name \in BuiltInProviders =>
    (IsConfigured(lastCall.outcome.value)
       <=> Credentials(lastCall.outcome.value) # "")

\* a GoogleGenAIProvider was created with a key and reports itself configured
ConfiguredGoogleInstance ==
  /\ lastCall.op = "create"
  /\ lastCall.type = "google-genai"
  /\ lastCall.config.apiKey = "k"
  /\ lastCall.outcome.ok
  /\ lastCall.outcome.value.name = "google-genai"
  /\ IsConfigured(lastCall.outcome.value)

\* -------------------------------------------------------- request claims
\* the request that was built starts with the math instruction of its
\* provider and holds one element more than the history
Injected ==
  /\ contents # None
  /\ Len(contents[1]) = Len(llmHistory) + 1
  /\ contents[1][1] = IF provider = Some("openai") THEN OpenAIMathInstruction
                      ELSE GoogleMathInstruction

\* text[i] exists and is a letter or a digit
IsLetterOrDigit(text, i) ==
  i \in 1..Len(text) /\ text[i] \in (WordCharacters \ {"_"}) \cup {"é"}

\* a keyword stands in the text as a whole word: no letter or digit touches it
ContainsWholeKeyword(text) ==
  \E keyword \in MathKeywords, i \in 1..Len(text) :
    /\ OccursAt(text, keyword, i)
    /\ ~IsLetterOrDigit(text, i - 1)
    /\ ~IsLetterOrDigit(text, i + Len(keyword))

\* the statement of C29 as it stands: the instruction is injected exactly
\* when a keyword stands in the conversation text as a whole word
InjectedIffWholeKeyword ==
  contents # None =>
    (Injected <=> ContainsWholeKeyword(ConversationText(llmHistory)))

\* what the scan accepts, keyword by keyword
ContainsBoundedKeyword(text) ==
  \E i \in 1..Len(text) :
    \/ \E keyword \in MathKeywords \ {XCaret, CaretTwo} :
         /\ OccursAt(text, keyword, i)
         /\ ~IsWordCharacter(text, i - 1)
         /\ ~IsWordCharacter(text, i + Len(keyword))
    \/ /\ OccursAt(text, XCaret, i)
       /\ ~IsWordCharacter(text, i - 1)
       /\ IsWordCharacter(text, i + 2)
    \/ /\ OccursAt(text, CaretTwo, i)
       /\ IsWordCharacter(text, i - 1)
       /\ ~IsWordCharacter(text, i + 2)

\* C29: a provider puts the math instruction in front of the converted
\* history exactly when the lower-cased, space-joined text of all turns
\* holds an alphabetic keyword with no character of [A-Za-z0-9_] next to it,
\* or "x^" with none before it and one after it, or "^2" with one before it
\* and none after it; otherwise the request is the converted history alone.
\* A turn whose text is "quadratic" triggers the injection; the texts
\* "hello world" and "2+2=?" do not.
InjectedIffBoundedKeyword ==
  contents # None =>
    /\ Injected <=> ContainsBoundedKeyword(ConversationText(llmHistory))
    /\ ~Injected => Len(contents[1]) = Len(llmHistory)
    /\ (\E i \in 1..Len(llmHistory) : llmHistory[i].content = Quadratic)
         => Injected
    /\ ConversationText(llmHistory) \in {HelloWorld, TwoPlusTwo} => ~Injected

\* the assistant's earlier turn says "quadratic" and the request for the
\* next one starts with the instruction
InjectedForQuadratic ==
  /\ Len(llmHistory) = 2
  /\ llmHistory[1].content = HelloWorld
  /\ llmHistory[2].content = Quadratic
  /\ Injected

\* C30: the history a sendMessage that reaches the provider hands to it is
\* the conversion of the whole message list as it stands when the turn
\* starts, in order, followed by the new user message as its last element;
\* and that list holds no assistant placeholder with isLoading = true.
SendHistoryIsWholeConversation ==
  [][lastEvent'.op = "sendMessage" /\ lastEvent'.started
       /\ Len(turns') = Len(turns) + 1
       /\ turns'[Len(turns')].pc = "streaming" =>
       LET llmMessages == turns'[Len(turns')].llmMessages
           userMessage == messages'[Len(messages') - 1]
       IN  /\ Len(llmMessages) = Len(messages) + 1
           /\ SubSeq(llmMessages, 1, Len(messages)) = MapLLM(messages)
           /\ llmMessages[Len(llmMessages)] = convertToLLMMessage(userMessage)
           /\ userMessage.role = "user"
           /\ \A i \in 1..Len(messages) : ~messages[i].isLoading]_vars

\* C31: while a turn that was not cancelled is streaming and has merged at
\* least one fragment, its assistant message is in the list with the
\* concatenation of the fragments merged so far as content and
\* isLoading = false, and the loading flag of the controller is true; a
\* merge only appends to that content.
StreamingTurnShowsFragments ==
  /\ [](\A t \in InFlight :
          turns[t].received # <<>> =>
            /\ HasMessage(messages, turns[t].assistantMessageId)
            /\ MessageOf(messages, turns[t].assistantMessageId).content
                 = Concat(turns[t].received)
            /\ ~MessageOf(messages, turns[t].assistantMessageId).isLoading
            /\ isLoading)
  /\ [][\A t \in InFlight :
          StreamEvent("chunk", t) /\ Running(t)'
            /\ HasMessage(messages, turns[t].assistantMessageId)
            /\ HasMessage(messages', turns[t].assistantMessageId) =>
            IsPrefix(MessageOf(messages, turns[t].assistantMessageId).content,
                     MessageOf(messages', turns[t].assistantMessageId).content)]_vars

\* the messages of a list other than the one with the given id, in order
OtherMessages(ms, id) == LET Other(m) == m.id # id IN SelectSeq(ms, Other)

\* C32: a fragment merge and a final update of a turn leave the length of
\* the list and the id at every position as they were and change no message
\* but the assistant message of that turn; and no stream event of a turn
\* (fragment, completion or failure) changes, removes or moves a message
\* other than the assistant message of that turn, so the message of a turn
\* that has settled is never written again by a stream event.
StreamEventTouchesOwnMessageOnly ==
  [][\A t \in TurnIds :
       Running(t) =>
         /\ StreamEvent("chunk", t) \/ StreamEvent("done", t) =>
              /\ Len(messages') = Len(messages)
              /\ \A i \in 1..Len(messages) :
                   /\ messages'[i].id = messages[i].id
                   /\ messages[i].id # turns[t].assistantMessageId =>
                        messages'[i] = messages[i]
         /\ (\E op \in {"chunk", "done", "throw"} : StreamEvent(op, t)) =>
              OtherMessages(messages', turns[t].assistantMessageId)
                = OtherMessages(messages, turns[t].assistantMessageId)]_vars

\* a fragment of the second turn was merged while the list holds the settled
\* answer of the first turn
MergedNextToSettledMessage ==
  /\ lastEvent.op = "chunk"
  /\ Len(messages) = 4
  /\ messages[2].role = "assistant"
  /\ messages[2].content = Concat(Reply)
  /\ messages[4].role = "assistant"
  /\ messages[4].content = Sol
  /\ \E t \in InFlight : turns[t].assistantMessageId = messages[4].id

\* the text of a turn, taken alone, is matched by the math keyword scan
HasKeyword(m) == DetectMathContent(ToLowerCase(m.content))

\* the step starts a turn by the given operation and the call reaches the
\* provider
StartsTurn(op) ==
  /\ lastEvent'.op = op
  /\ lastEvent'.started
  /\ Len(turns') = Len(turns) + 1
  /\ turns'[Len(turns')].pc = "streaming"

\* the request the provider of a running turn builds from the history it
\* was handed
RequestOf(turn) == ProviderRequest(turn.llm[1].name, turn.llmMessages)

\* the request of a turn starts with the math instruction
RequestInjected(turn) ==
  \E sent \in {RequestOf(turn)} :
    sent # <<>> /\ sent[1] = GoogleMathInstruction

\* the request of a turn is its history turn by turn, in order, behind
\* exactly one instruction when the instruction is injected
RequestFollowsHistory(turn) ==
  LET converted == [i \in 1..Len(turn.llmMessages) |->
                      GoogleContent(turn.llmMessages[i])]
  IN  \E sent \in {RequestOf(turn)} :
        /\ sent = IF sent # <<>> /\ sent[1] = GoogleMathInstruction
                  THEN <<GoogleMathInstruction>> \o converted
                  ELSE converted
        /\ Cardinality({i \in 1..Len(sent) : sent[i] = GoogleMathInstruction})
             = IF sent # <<>> /\ sent[1] = GoogleMathInstruction
               THEN 1 ELSE 0

\* the statement of C33 as it stands: when a call is made while a message
\* of the list holds a keyword, its request carries the instruction
KeywordInListAlwaysInjects ==
  [][\A op \in {"sendMessage", "retryLastMessage"} :
       StartsTurn(op) =>
         /\ RequestFollowsHistory(turns'[Len(turns')])
         /\ (\E i \in 1..Len(messages) : HasKeyword(messages[i]))
              => RequestInjected(turns'[Len(turns')])]_vars

\* C33: the request of a call is the converted history in its order, behind
\* exactly one instruction turn at position 0 when the scan matches and
\* behind none otherwise; the scan matches exactly when the text of some
\* turn of the history handed to the provider, user or assistant, holds a
\* keyword.  So a sendMessage injects whenever a message of the list holds
\* a keyword, and a retryLastMessage whenever a message of the list other
\* than the trailing assistant message it drops holds one.
KeywordInHistoryInjects ==
  [][\A op \in {"sendMessage", "retryLastMessage"} :
       StartsTurn(op) =>
         LET turn == turns'[Len(turns')]
             kept == IF op = "sendMessage" THEN messages
                     ELSE WithoutTrailingAssistant
         IN  /\ RequestFollowsHistory(turn)
             /\ RequestInjected(turn) <=>
                  \E i \in 1..Len(turn.llmMessages) :
                    HasKeyword(turn.llmMessages[i])
             /\ (\E i \in 1..Len(kept) : HasKeyword(kept[i]))
                  => RequestInjected(turn)]_vars

\* the first answer said "Solve" and the request of the next sendMessage
\* starts with the instruction, followed by the three turns of its history
InjectedAfterAssistantKeyword ==
  /\ lastEvent.op = "sendMessage"
  /\ lastEvent.started
  /\ Running(lastEvent.turn)
  /\ Len(messages) = 4
  /\ messages[2].content = Concat(Reply)
  /\ ~HasKeyword(messages[1]) /\ ~HasKeyword(messages[3])
  /\ RequestInjected(turns[lastEvent.turn])
  /\ Len(RequestOf(turns[lastEvent.turn])) = 4

\* the images of a turn, <<>> when it has none
ImagesOf(msg) == IF msg.images = None THEN <<>> ELSE msg.images[1]

\* the number of parts the text of a turn takes
TextParts(msg) == IF msg.content # <<>> THEN 1 ELSE 0

\* a wire turn of the SDK-backed variant is the translation of msg
IsGoogleTurnOf(wire, msg) ==
  /\ wire.role = IF msg.role = "user" THEN "user" ELSE "model"
  /\ Len(wire.parts) = TextParts(msg) + Len(ImagesOf(msg))
  /\ msg.content # <<>> => wire.parts[1] = [text |-> msg.content]
  /\ \A j \in 1..Len(ImagesOf(msg)) :
       wire.parts[TextParts(msg) + j] =
         [inlineData |-> [mimeType |-> ImagesOf(msg)[j].type,
                          data |-> ImagesOf(msg)[j].data]]

\* a wire turn of the raw-HTTP variant is the translation of msg
IsOpenAITurnOf(wire, msg) ==
  /\ wire.role = msg.role
  /\ ("string" \in DOMAIN wire.content) <=> ImagesOf(msg) = <<>>
  /\ IF ImagesOf(msg) = <<>>
     THEN wire.content = [string |-> msg.content]
     ELSE /\ DOMAIN wire.content = {"array"}
          /\ Len(wire.content.array) = TextParts(msg) + Len(ImagesOf(msg))
          /\ msg.content # <<>> =>
               wire.content.array[1] = [type |-> "text", text |-> msg.content]
          /\ \A j \in 1..Len(ImagesOf(msg)) :
               wire.content.array[TextParts(msg) + j] =
                 [type |-> "image_url",
                  image_url |->
                    [url |-> <<"data:", ImagesOf(msg)[j].type, ";base64,",
                               ImagesOf(msg)[j].data>>]]

\* C34: behind the instruction turn, if one is injected, the request holds
\* one wire turn per turn of the history, in the order of the history; a
\* wire turn holds the text first, as one part and only when the text is
\* not empty, and then one part per image in the order of the attachment
\* list; the raw-HTTP variant sends the text as a plain string exactly when
\* the turn has no image.
TurnsTranslatedInOrder ==
  contents # None =>
    LET offset == IF Injected THEN 1 ELSE 0
    IN  /\ Len(contents[1]) = Len(llmHistory) + offset
        /\ \A i \in 1..Len(llmHistory) :
             IF provider = Some("openai")
             THEN IsOpenAITurnOf(contents[1][i + offset], llmHistory[i])
             ELSE IsGoogleTurnOf(contents[1][i + offset], llmHistory[i])

\* the SDK-backed variant has translated a user turn with a text and two
\* images, followed by an assistant turn
TranslatedTextAndTwoImages ==
  /\ contents # None
  /\ provider = Some("google-genai")
  /\ Len(llmHistory) = 2
  /\ llmHistory[1].content = HelloWorld
  /\ Len(ImagesOf(llmHistory[1])) = 2
  /\ Len(contents[1]) = 2
  /\ Len(contents[1][1].parts) = 3
  /\ contents[1][2].role = "model"

\* the part of the body that reader.read() has returned so far
TextRead ==
  SubSeq(BodyText(responseBody), 1, Len(BodyText(responseBody)) - Len(unread))

\* what the generator yields when it is given the text in a single chunk
YieldedInOneChunk(text) ==
  ProcessLines(SubSeq(Split(text), 1, Len(Split(text)) - 1)).fragments

\* C35: for a body of newline-terminated lines, the fragments yielded so far
\* are those a single read of the text returned so far would have yielded,
\* whatever chunks that text arrived in; so the fragments yielded for the
\* whole body and their order do not depend on the division into chunks.
YieldedIndependentOfChunks ==
  responseBody.terminated => yielded = YieldedInOneChunk(TextRead)

\* a chunk has ended in the middle of the prefix "data: " of the second
\* content line, after the first one was yielded
ChunkEndedInsidePrefix ==
  /\ readerLocked
  /\ responseBody.terminated
  /\ responseBody.lines = <<ContentLine("Hel"), ContentLine("lo")>>
  /\ buffer = <<"da">>
  /\ yielded = <<"Hel">>

\* the generator has ended without an error after the response arrived
EndedNormally == response # None /\ thrown = None /\ ~readerLocked

\* C36: when the generator has ended without an error, every content line
\* of the body before the first data: [DONE] has been yielded exactly once,
\* in body order, a last line that no line feed follows included.
EveryContentLineYielded ==
  EndedNormally /\ (unread = <<>> \/ DoneRead) =>
    yielded = ContentFragments(SubSeq(responseBody.lines, 1, FirstDone - 1))

\* C37: in every reachable state, if a message of the list has
\* isLoading = true then the loading flag of the controller is true.
LoadingMessageImpliesFlag == LoadingMessages # {} => isLoading

\* C38: while a turn that was not cancelled is streaming, the ref holds the
\* token created for that turn: it is not null and not the token of
\* another turn.
TokenBelongsToStreamingTurn ==
  \A t \in InFlight :
    abortControllerRef # None /\ abortControllerRef[1].id = t

\* the ids of the messages of a list
Ids(ms) == {ms[i].id : i \in 1..Len(ms)}

UserMessages(ms) == LET User(m) == m.role = "user" IN SelectSeq(ms, User)

\* C40: every step other than a clearChat leaves the user messages of the
\* list as they were, in their order, and at most appends one at the end.
UserMessagesOnlyAppended ==
  [][lastEvent'.op # "clearChat" =>
       /\ IsPrefix(UserMessages(messages), UserMessages(messages'))
       /\ Len(UserMessages(messages')) <= Len(UserMessages(messages)) + 1]_vars

\* a turn failed after a fragment was merged: its assistant message is gone
\* and the two user messages stand as they were
FailureKeptUserMessages ==
  /\ lastEvent.op = "throw"
  /\ error # None
  /\ Len(messages) = 3
  /\ UserMessages(messages) = <<messages[1], messages[3]>>
  /\ messages[2].role = "assistant"
====
